---- MODULE Spec2Model ----
(***************************************************************************)
(* Read-iteration engine of the file_games benchmark programs.             *)
(*                                                                         *)
(*   prog = "chunked"   : the chunked / parallel O_DIRECT program          *)
(*                        (src/unnamed/part_000, main, lines 130-417)      *)
(*   prog = "advancing" : the advancing-pointer O_DIRECT program           *)
(*                        (src/main.cpp, second main, lines 162-329)       *)
(*                                                                         *)
(* Sizes (aligned_K, CHUNK_SIZE, file sizes, byte counts) are counted in   *)
(* one common unit.  open / read / pread / posix_memalign are calls into   *)
(* the operating system: their results are chosen by the environment       *)
(* among the results the call can return.                                  *)
(***************************************************************************)
EXTENDS Integers, Sequences, FiniteSets, TLC

\* ---- bounds of the model ------------------------------------------------
MaxN == 2
MaxIter == 3
MaxK == 2
MaxSmallK == 1100       \* file sizes 1..MaxSmallK bytes for the alignment
MaxNearTop == 600       \* and the MaxNearTop + 1 largest values of an int
MaxProgressIter == 25   \* iteration counts 0..MaxProgressIter for the progress cadence
MaxLoopK == 3           \* sizes 0..MaxLoopK for the read loop taken alone
MaxRounds == 2          \* and MaxRounds multiples of 1000 for the chunked program

VARIABLES
    prog,              \* which program runs
    N, ITER, aligned_K, CHUNK_SIZE, SKIP_READ, PARALLEL_READ,   \* parameters
    K,                 \* the file size given on the command line
    fileSize,          \* the file set on disk: the size the files f1..fN have
                       \* when they are read (0 when writing was skipped; files
                       \* kept from an earlier run may be shorter than aligned_K)
    pc,                \* position of the main thread
    outcome,           \* "running" | "completed" | "aborted" | "crashed"
    status,            \* exit status of the process, -1 while it runs
    reported,          \* the final statistics were printed
    average,           \* the average time per iteration printed with them
    progress,          \* 1-based numbers of the iterations that printed progress
    read_buffer,       \* "none" | "allocated" | "freed"
    file_permutation,  \* std::vector<int> file_permutation
    i,                 \* loop counter of the iteration loop
    file_num,          \* file selected by the current iteration
    fd,                \* the descriptor variable of the loop body, -1 = none
    openFds,           \* descriptors the kernel holds open for the process
    fsize,             \* size of the file behind fd
    fpos,              \* file cursor of fd (moved by read, not by pread)
    total_bytes_read, file_total_read,
    file_remaining,    \* file_remaining (chunked), remaining (advancing)
    buffer_ptr,        \* advancing: buffer_ptr - read_buffer
    num_chunks, chunk_idx, join_idx,
    error_occurred, total_read,   \* the two atomics of one parallel read
    threads,           \* std::vector<std::thread>, one record per worker
    attempts,          \* history: open attempts of the current iteration
    warnings,          \* history: fallback warnings of the current iteration
    nreads,            \* history: read / pread calls issued for the current file
    fullReads,         \* history: every read of the current file returned all it asked for
    allocFailed,       \* history: a worker of the current file got no buffer
    preads,            \* history: <<offset, size>> of the preads issued for the current file
    readErr,           \* history: a read of the current file returned a negative count
    zeroReads,         \* history: read calls of the current file that returned 0
    opened,            \* history: files opened so far, in order
    closes             \* history: number of close calls so far

cfgVars == <<prog, N, ITER, K, aligned_K, CHUNK_SIZE, SKIP_READ, PARALLEL_READ, fileSize>>
runVars == <<pc, outcome, status, reported, average, read_buffer, file_permutation, i, progress, file_num>>
fdVars == <<fd, openFds, fsize, fpos>>
byteVars == <<total_bytes_read, file_total_read, file_remaining, buffer_ptr>>
parVars == <<num_chunks, chunk_idx, join_idx, error_occurred, total_read, threads>>
histVars == <<attempts, warnings, nreads, fullReads, allocFailed, preads, readErr, zeroReads,
              opened, closes>>
vars == <<cfgVars, runVars, fdVars, byteVars, parVars, histVars>>

\* ---- helpers --------------------------------------------------------------
Min(a, b) == IF a < b THEN a ELSE b

Range(s) == {s[k] : k \in DOMAIN s}

Programs == {"chunked", "advancing"}
FileSizes == 0..MaxK

\* Results a read(fd, buf, req) or pread(fd, buf, req, off) can return when
\* `avail` bytes lie between the position read from and the end of the file:
\* -1 (error), 0 at end of file (or for req = 0), else any count from 1 up to
\* what is requested and available (a read may return fewer bytes than asked).
ReadResults(avail, req) ==
    {-1} \cup (IF Min(avail, req) <= 0 THEN {0} ELSE 1..Min(avail, req))

\* a shuffle that draws every position independently, so elements may repeat
Shuffles_WithRepeats(s) ==
    {[k \in 1..Len(s) |-> s[p[k]]] : p \in [1..Len(s) -> 1..Len(s)]}

\* std::shuffle: some rearrangement of the elements of s
Shuffles(s) ==
    {[k \in 1..Len(s) |-> s[p[k]]] :
        p \in {q \in [1..Len(s) -> 1..Len(s)] : \A a, b \in 1..Len(s) : q[a] = q[b] => a = b}}

\* lines 279-282: file_permutation[i - 1] = i for i = 1..N
IotaFrom1(n) == [k \in 1..n |-> k]

\* a worker whose offset is one chunk too far
NewThread_NextOffset(k) ==
    [st |-> "alloc", offset |-> (k + 1) * CHUNK_SIZE, buf |-> FALSE,
     addr |-> 0, cap |-> 0, dest |-> 0, res |-> "none"]

\* lines 326-346: a worker as spawned for chunk k, before its first statement.
\* st is its position, buf whether it holds a buffer, addr and cap the block
\* and the size of that buffer, dest the block its pread wrote to, res the
\* result of its pread ("none" before, "noalloc" when it got no buffer).
NewThread(k) ==
    [st |-> "alloc", offset |-> k * CHUNK_SIZE, buf |-> FALSE,
     addr |-> 0, cap |-> 0, dest |-> 0, res |-> "none"]

\* the variables of a run before any statement of it has executed
NothingRunYet ==
    /\ outcome = "running"
    /\ status = -1
    /\ reported = FALSE
    /\ average = "none"
    /\ progress = {}
    /\ read_buffer = "none"
    /\ file_permutation = <<>>
    /\ i = 0
    /\ file_num = 0
    /\ fd = -1
    /\ openFds = {}
    /\ fsize = 0
    /\ fpos = 0
    /\ total_bytes_read = 0
    /\ file_total_read = 0
    /\ file_remaining = 0
    /\ buffer_ptr = 0
    /\ num_chunks = 0
    /\ chunk_idx = 0
    /\ join_idx = 0
    /\ error_occurred = FALSE
    /\ total_read = 0
    /\ threads = <<>>
    /\ attempts = 0
    /\ warnings = 0
    /\ nreads = 0
    /\ fullReads = TRUE
    /\ allocFailed = FALSE
    /\ preads = {}
    /\ readErr = FALSE
    /\ zeroReads = 0
    /\ opened = <<>>
    /\ closes = 0

\* ---- initial state: the parameters after argument parsing, nothing run yet --
Init ==
    /\ prog \in Programs
    /\ N \in 0..MaxN
    /\ ITER \in 0..MaxIter
    /\ aligned_K \in 1..MaxK
    /\ K = aligned_K
    /\ CHUNK_SIZE \in (IF prog = "chunked" THEN 1..MaxK ELSE {aligned_K})
    /\ SKIP_READ \in (IF prog = "chunked" THEN BOOLEAN ELSE {FALSE})
    /\ PARALLEL_READ \in (IF prog = "chunked" THEN BOOLEAN ELSE {FALSE})
    /\ fileSize \in FileSizes
    /\ pc = "start"
    /\ NothingRunYet

\* an error return that reports success to the caller
Return1_ExitsZero ==
    /\ pc' = "exit"
    /\ outcome' = "aborted"
    /\ status' = 0

\* `return 1`: the process ends with a failure status
Return1 ==
    /\ pc' = "exit"
    /\ outcome' = "aborted"
    /\ status' = 1

\* open(filename, flags) succeeded: the kernel hands out the lowest free
\* descriptor (0, 1, 2 are the standard streams) with the cursor at 0
Opened ==
    /\ fd' = CHOOSE d \in 3..(4 + MaxIter) : d \notin openFds /\ \A e \in 3..(d - 1) : e \in openFds
    /\ openFds' = openFds \cup {fd'}
    /\ fsize' = fileSize
    /\ fpos' = 0
    /\ opened' = Append(opened, file_num)

\* free(read_buffer): releasing a buffer that is not allocated corrupts the heap
FreeBuffer ==
    read_buffer' = IF read_buffer = "allocated" THEN "freed" ELSE "corrupt"

\* read / pread on descriptor d: a descriptor that is not open gives EBADF
ReadOn(d, avail, req) ==
    IF d \in openFds THEN ReadResults(avail, req) ELSE {-1}

\* close(fd)
Close ==
    /\ openFds' = openFds \ {fd}
    /\ closes' = closes + 1

\* history of one iteration: nothing attempted, read or failed yet
StartIteration ==
    /\ attempts' = 0 /\ warnings' = 0 /\ nreads' = 0 /\ fullReads' = TRUE
    /\ allocFailed' = FALSE /\ preads' = {} /\ readErr' = FALSE /\ zeroReads' = 0

\* ---- progress and statistics ----------------------------------------------

\* part_000 line 392: the chunked program prints progress every 1000 iterations
ProgressEvery == 1000

\* main.cpp line 311 (the same expression at line 128 and at part_000 line 95):
\* a tenth of the iterations, 1 when that would be 0
TenPercent(iter) == IF iter \div 10 = 0 THEN 1 ELSE iter \div 10

\* the divisor of the progress check of the running program
ProgressInterval ==
    IF prog = "chunked" THEN ProgressEvery ELSE TenPercent(ITER)

\* a progress check that fires after every iteration
ProgressDue_EveryIteration(n) == TRUE

\* part_000 line 392, main.cpp line 311: the progress check after the n-th
\* iteration (n = i + 1)
ProgressDue(n) == n % ProgressInterval = 0

\* part_000 line 414, main.cpp line 326: duration / (double)ITER.  A floating
\* point division by zero gives an infinity or a NaN, no trap.
AverageTime == IF ITER = 0 THEN "inf_or_nan" ELSE "finite"

\* ======================= the chunked / parallel program ====================

\* lines 271-276: posix_memalign of the main read buffer
AllocBuffer ==
    /\ prog = "chunked" /\ pc = "start"
    /\ \/ /\ read_buffer' = "allocated"
          /\ pc' = "shuffle"
          /\ UNCHANGED <<outcome, status>>
       \/ /\ Return1
          /\ UNCHANGED read_buffer
    /\ UNCHANGED <<cfgVars, reported, average, file_permutation, i, progress, file_num,
                   fdVars, byteVars, parVars, histVars>>

\* lines 278-291: build the permutation 1..N, shuffle it, zero the byte total
Shuffle ==
    /\ prog = "chunked" /\ pc = "shuffle"
    /\ file_permutation' \in Shuffles(IotaFrom1(N))
    /\ total_bytes_read' = 0
    /\ i' = 0
    /\ pc' = "loop"
    /\ UNCHANGED <<cfgVars, outcome, status, reported, average, progress, read_buffer,
                   file_num, fdVars, file_total_read, file_remaining, buffer_ptr, parVars,
                   histVars>>

\* a selection that starts one position late
SelectFile_OffByOne(k) == file_permutation[((k + 1) % N) + 1]

\* line 295: the file iteration k reads, file_permutation[k % N] (0-based)
SelectFile(k) == file_permutation[(k % N) + 1]

\* lines 293-296: loop test and file selection.  With N = 0 the expression
\* i % N is undefined behaviour: the build either traps or goes on with some
\* value as file_num.
LoopHead ==
    /\ prog = "chunked" /\ pc = "loop"
    /\ \/ /\ i < ITER /\ N > 0
          /\ file_num' = SelectFile(i)
          /\ pc' = "open"
          /\ UNCHANGED <<outcome, status>>
       \/ /\ i < ITER /\ N = 0
          /\ \/ /\ pc' = "exit" /\ outcome' = "crashed" /\ status' = 136
                /\ UNCHANGED file_num
             \/ /\ file_num' \in 0..MaxN
                /\ pc' = "open"
                /\ UNCHANGED <<outcome, status>>
       \/ /\ i >= ITER
          /\ pc' = "finish"
          /\ UNCHANGED <<file_num, outcome, status>>
    /\ IF i < ITER THEN StartIteration
                   ELSE UNCHANGED <<attempts, warnings, nreads, fullReads, allocFailed,
                                    preads, readErr, zeroReads>>
    /\ UNCHANGED <<cfgVars, reported, average, read_buffer, file_permutation, i, progress,
                   fdVars, byteVars, parVars, opened, closes>>

\* lines 298-301 and 315: open with O_RDONLY | O_DIRECT
OpenDirect ==
    /\ prog = "chunked" /\ pc = "open"
    /\ attempts' = attempts + 1
    /\ \/ /\ Opened
          /\ file_total_read' = 0
          /\ pc' = "read"
       \/ /\ fd' = -1
          /\ pc' = "fallback"
          /\ UNCHANGED <<openFds, fsize, fpos, opened, file_total_read>>
    /\ UNCHANGED <<cfgVars, outcome, status, reported, average, read_buffer, file_permutation,
                   i, progress, file_num, total_bytes_read, file_remaining, buffer_ptr, parVars,
                   warnings, nreads, fullReads, allocFailed, preads, readErr, zeroReads, closes>>

\* a fallback that opens the file, warns, and then gives the run up
FallbackOpened_Fatal ==
    /\ Opened
    /\ warnings' = warnings + 1
    /\ file_total_read' = 0
    /\ FreeBuffer
    /\ Return1

\* lines 305 and 311-315: the buffered open succeeded: warn and go on to read
FallbackOpened ==
    /\ Opened
    /\ warnings' = warnings + 1
    /\ file_total_read' = 0
    /\ pc' = "read"
    /\ UNCHANGED <<outcome, status, read_buffer>>

\* an open failure that returns without freeing the main buffer
AbortOpen_Leak ==
    /\ fd' = -1
    /\ UNCHANGED read_buffer
    /\ Return1
    /\ UNCHANGED <<openFds, fsize, fpos, opened, warnings, file_total_read>>

\* lines 305-310: the buffered open failed too: free the buffer, return 1
AbortOpen ==
    /\ fd' = -1
    /\ FreeBuffer
    /\ Return1
    /\ UNCHANGED <<openFds, fsize, fpos, opened, warnings, file_total_read>>

\* lines 302-312 and 315: the buffered open tried once after O_DIRECT failed
OpenFallback ==
    /\ prog = "chunked" /\ pc = "fallback"
    /\ attempts' = attempts + 1
    /\ \/ FallbackOpened
       \/ AbortOpen
    /\ UNCHANGED <<cfgVars, reported, average, file_permutation, i, progress, file_num,
                   total_bytes_read, file_remaining, buffer_ptr, parVars, nreads, fullReads,
                   allocFailed, preads, readErr, zeroReads, closes>>

\* line 320: the number of workers of one file
NumChunks == aligned_K \div CHUNK_SIZE

\* a read set-up that does not look at SKIP_READ
BeginRead_IgnoresSkip ==
    /\ prog = "chunked" /\ pc = "read"
    /\ \/ /\ PARALLEL_READ
          /\ num_chunks' = NumChunks
          /\ error_occurred' = FALSE
          /\ total_read' = 0
          /\ threads' = <<>>
          /\ chunk_idx' = 0
          /\ pc' = "spawn"
          /\ UNCHANGED <<file_remaining, join_idx>>
       \/ /\ ~PARALLEL_READ
          /\ file_remaining' = aligned_K
          /\ pc' = "seq"
          /\ UNCHANGED parVars
    /\ UNCHANGED <<cfgVars, outcome, status, reported, average, read_buffer, file_permutation,
                   i, progress, file_num, fdVars, total_bytes_read, file_total_read, buffer_ptr,
                   histVars>>

\* lines 317-325 and 363-364: choose the read mode and set up its locals
BeginRead ==
    /\ prog = "chunked" /\ pc = "read"
    /\ \/ /\ SKIP_READ
          /\ pc' = "accum"
          /\ UNCHANGED <<file_remaining, parVars>>
       \/ /\ ~SKIP_READ /\ PARALLEL_READ
          /\ num_chunks' = NumChunks
          /\ error_occurred' = FALSE
          /\ total_read' = 0
          /\ threads' = <<>>
          /\ chunk_idx' = 0
          /\ pc' = "spawn"
          /\ UNCHANGED <<file_remaining, join_idx>>
       \/ /\ ~SKIP_READ /\ ~PARALLEL_READ
          /\ file_remaining' = aligned_K
          /\ pc' = "seq"
          /\ UNCHANGED parVars
    /\ UNCHANGED <<cfgVars, outcome, status, reported, average, read_buffer, file_permutation,
                   i, progress, file_num, fdVars, total_bytes_read, file_total_read, buffer_ptr, histVars>>

\* lines 325-327 and 347: one pass of the spawn loop; the new worker runs at once
SpawnThread ==
    /\ prog = "chunked" /\ pc = "spawn"
    /\ \/ /\ chunk_idx < num_chunks
          /\ threads' = Append(threads, NewThread(chunk_idx))
          /\ chunk_idx' = chunk_idx + 1
          /\ UNCHANGED <<pc, join_idx>>
       \/ /\ chunk_idx >= num_chunks
          /\ pc' = "join"
          /\ join_idx' = 0
          /\ UNCHANGED <<threads, chunk_idx>>
    /\ UNCHANGED <<cfgVars, outcome, status, reported, average, read_buffer, file_permutation,
                   i, progress, file_num, fdVars, byteVars, num_chunks, error_occurred,
                   total_read, histVars>>

\* The heap in blocks. posix_memalign returns a block that no live allocation
\* occupies; the blocks are named by the call that obtained them: block 1 is
\* the main read buffer (lines 271-276), block t + 1 the one obtained by
\* worker t (line 331).
ReadBufferBlock == IF read_buffer = "allocated" THEN 1 ELSE 0

\* line 331: the block posix_memalign hands to worker t
WorkerBlock(t) == t + 1

\* a worker that allocates nothing and takes the main read buffer
WorkerAlloc_SharesMainBuffer(t) ==
    /\ t \in DOMAIN threads /\ threads[t].st = "alloc"
    /\ threads' = [threads EXCEPT ![t].st = "pread", ![t].buf = TRUE,
                                  ![t].addr = ReadBufferBlock, ![t].cap = CHUNK_SIZE]
    /\ UNCHANGED <<error_occurred, allocFailed>>
    /\ UNCHANGED <<cfgVars, runVars, fdVars, byteVars, num_chunks, chunk_idx,
                   join_idx, total_read, attempts, warnings, nreads, fullReads,
                   preads, readErr, zeroReads, opened, closes>>

\* lines 329-335: worker t allocates its own aligned buffer of CHUNK_SIZE bytes
WorkerAlloc(t) ==
    /\ t \in DOMAIN threads /\ threads[t].st = "alloc"
    /\ \/ /\ threads' = [threads EXCEPT ![t].st = "pread", ![t].buf = TRUE,
                                        ![t].addr = WorkerBlock(t), ![t].cap = CHUNK_SIZE]
          /\ UNCHANGED <<error_occurred, allocFailed>>
       \/ /\ error_occurred' = TRUE
          /\ allocFailed' = TRUE
          /\ threads' = [threads EXCEPT ![t].st = "done", ![t].res = "noalloc"]
    /\ UNCHANGED <<cfgVars, runVars, fdVars, byteVars, num_chunks, chunk_idx,
                   join_idx, total_read, attempts, warnings, nreads, fullReads,
                   preads, readErr, zeroReads, opened, closes>>

\* a read loop that always asks for a whole chunk
ToRead_WholeChunk == CHUNK_SIZE

\* a test for a failed read that never fires
ReadFailed_Never(bytes_read) == FALSE

\* a test that takes only a failed pread, not a short one, as an error
ChunkFailed_OnlyNegative(bytes_read) == bytes_read < 0

\* line 339: the test a worker applies to the result of its pread
ChunkFailed(bytes_read) == bytes_read # CHUNK_SIZE

\* an addition that overwrites the counter, losing what the others added
FetchAdd_Lost(counter, n) == n

\* line 342: += on std::atomic<size_t> is one atomic read-modify-write
FetchAdd(counter, n) == counter + n

\* what a pread returned: a whole chunk, fewer bytes, or an error
PreadResult(bytes_read) ==
    IF bytes_read = CHUNK_SIZE THEN "full"
    ELSE IF bytes_read < 0 THEN "error" ELSE "short"

\* lines 337-343: worker t reads its chunk at its own offset and records the
\* result in the atomics (total_read += is one atomic read-modify-write)
WorkerPread(t) ==
    /\ t \in DOMAIN threads /\ threads[t].st = "pread"
    /\ \E bytes_read \in ReadOn(fd, fsize - threads[t].offset, CHUNK_SIZE) :
          /\ threads' = [threads EXCEPT ![t].st = "free",
                                        ![t].dest = threads[t].addr,
                                        ![t].res = PreadResult(bytes_read)]
          /\ IF ChunkFailed(bytes_read)
                THEN error_occurred' = TRUE /\ UNCHANGED total_read
                ELSE total_read' = FetchAdd(total_read, bytes_read) /\ UNCHANGED error_occurred
          /\ fullReads' = (fullReads /\ bytes_read = CHUNK_SIZE)
          /\ readErr' = (readErr \/ bytes_read < 0)
    /\ nreads' = nreads + 1
    /\ preads' = preads \cup {<<threads[t].offset, CHUNK_SIZE>>}
    /\ UNCHANGED <<cfgVars, runVars, fdVars, byteVars, num_chunks, chunk_idx,
                   join_idx, attempts, warnings, allocFailed, zeroReads, opened, closes>>

\* a worker that ends without freeing its buffer
WorkerFree_Leak(t) ==
    /\ t \in DOMAIN threads /\ threads[t].st = "free"
    /\ threads' = [threads EXCEPT ![t].st = "done"]
    /\ UNCHANGED <<cfgVars, runVars, fdVars, byteVars, num_chunks, chunk_idx,
                   join_idx, error_occurred, total_read, histVars>>

\* lines 345-346: worker t frees its buffer and ends
WorkerFree(t) ==
    /\ t \in DOMAIN threads /\ threads[t].st = "free"
    /\ threads' = [threads EXCEPT ![t].st = "done", ![t].buf = FALSE,
                                  ![t].addr = 0, ![t].cap = 0, ![t].dest = 0]
    /\ UNCHANGED <<cfgVars, runVars, fdVars, byteVars, num_chunks, chunk_idx,
                   join_idx, error_occurred, total_read, histVars>>

\* a join that does not wait for the worker
Joined_NoWait(t) == TRUE

\* line 351: thread.join() returns once worker t has ended
Joined(t) == threads[t].st = "done"

\* lines 349-352: one pass of the join loop; join blocks until the worker ended
JoinThread ==
    /\ prog = "chunked" /\ pc = "join"
    /\ \/ /\ join_idx < Len(threads)
          /\ Joined(join_idx + 1)
          /\ join_idx' = join_idx + 1
          /\ UNCHANGED pc
       \/ /\ join_idx >= Len(threads)
          /\ pc' = "check"
          /\ UNCHANGED join_idx
    /\ UNCHANGED <<cfgVars, outcome, status, reported, average, read_buffer, file_permutation,
                   i, progress, file_num, fdVars, byteVars, num_chunks, chunk_idx,
                   error_occurred, total_read, threads, histVars>>

\* an error exit that forgets the close
AbortRead_NoClose ==
    /\ UNCHANGED <<openFds, closes>>
    /\ FreeBuffer
    /\ Return1

\* lines 356-358 and 372-374: the error exit of a read: close, free, return 1
AbortRead ==
    /\ Close
    /\ FreeBuffer
    /\ Return1

\* lines 354-361: after the join, fail the whole run or take the byte count
ParCheck ==
    /\ prog = "chunked" /\ pc = "check"
    /\ \/ /\ error_occurred
          /\ AbortRead
          /\ UNCHANGED file_total_read
       \/ /\ ~error_occurred
          /\ file_total_read' = total_read
          /\ pc' = "accum"
          /\ UNCHANGED <<outcome, status, read_buffer, openFds, closes>>
    /\ UNCHANGED <<cfgVars, reported, average, file_permutation, i, progress, file_num, fd, fsize, fpos,
                   total_bytes_read, file_remaining, buffer_ptr, parVars,
                   attempts, warnings, nreads, fullReads, allocFailed, preads, readErr, zeroReads, opened>>

\* a request for all that remains of the file, whatever the chunk size
ToRead_AllRemaining == file_remaining

\* line 366: the size of the next read
ToRead == IF file_remaining < CHUNK_SIZE THEN file_remaining ELSE CHUNK_SIZE

\* line 369: the test for a failed read
ReadFailed(bytes_read) == bytes_read < 0

\* lines 365-382: one pass of the sequential read loop
SeqRead ==
    /\ prog = "chunked" /\ pc = "seq"
    /\ \/ /\ file_remaining > 0
          /\ \E bytes_read \in ReadOn(fd, fsize - fpos, ToRead) :
               /\ nreads' = nreads + 1
               /\ fullReads' = (fullReads /\ bytes_read = ToRead)
               /\ readErr' = (readErr \/ bytes_read < 0)
               /\ zeroReads' = zeroReads + (IF bytes_read = 0 THEN 1 ELSE 0)
               /\ IF ReadFailed(bytes_read)
                     THEN /\ AbortRead
                          /\ UNCHANGED <<fpos, file_total_read, file_remaining>>
                     ELSE IF bytes_read = 0
                     THEN /\ pc' = "accum"
                          /\ UNCHANGED <<outcome, status, read_buffer, openFds, closes,
                                         fpos, file_total_read, file_remaining>>
                     ELSE /\ file_total_read' = file_total_read + bytes_read
                          /\ file_remaining' = file_remaining - bytes_read
                          /\ fpos' = fpos + bytes_read
                          /\ UNCHANGED <<pc, outcome, status, read_buffer, openFds, closes>>
       \/ /\ file_remaining <= 0
          /\ pc' = "accum"
          /\ UNCHANGED <<outcome, status, read_buffer, openFds, closes, fpos,
                         file_total_read, file_remaining, nreads, fullReads, readErr, zeroReads>>
    /\ UNCHANGED <<cfgVars, reported, average, file_permutation, i, progress, file_num, fd, fsize,
                   total_bytes_read, buffer_ptr, parVars, attempts, warnings,
                   allocFailed, preads, opened>>

\* an accumulation that keeps only the bytes of the last file
FinishIteration_Overwrites ==
    /\ prog = "chunked" /\ pc = "accum"
    /\ total_bytes_read' = file_total_read
    /\ Close
    /\ progress' = IF ProgressDue(i + 1) THEN progress \cup {i + 1} ELSE progress
    /\ i' = i + 1
    /\ pc' = "loop"
    /\ UNCHANGED <<cfgVars, outcome, status, reported, average, read_buffer, file_permutation,
                   file_num, fd, fsize, fpos, file_total_read, file_remaining,
                   buffer_ptr, parVars, attempts, warnings, nreads, fullReads, allocFailed,
                   preads, readErr, zeroReads, opened>>

\* lines 386-399: add the file's bytes to the total, close, print progress
\* when it is due, next iteration
FinishIteration ==
    /\ prog = "chunked" /\ pc = "accum"
    /\ total_bytes_read' = total_bytes_read + file_total_read
    /\ Close
    /\ progress' = IF ProgressDue(i + 1) THEN progress \cup {i + 1} ELSE progress
    /\ i' = i + 1
    /\ pc' = "loop"
    /\ UNCHANGED <<cfgVars, outcome, status, reported, average, read_buffer, file_permutation,
                   file_num, fd, fsize, fpos, file_total_read, file_remaining,
                   buffer_ptr, parVars, attempts, warnings, nreads, fullReads, allocFailed,
                   preads, readErr, zeroReads, opened>>

\* lines 401-416: free the buffer, print the statistics, return 0
Finish ==
    /\ prog = "chunked" /\ pc = "finish"
    /\ FreeBuffer
    /\ reported' = TRUE
    /\ average' = AverageTime
    /\ pc' = "exit"
    /\ outcome' = "completed"
    /\ status' = 0
    /\ UNCHANGED <<cfgVars, file_permutation, i, progress, file_num, fdVars, byteVars,
                   parVars, histVars>>

ChunkedNext ==
    \/ AllocBuffer \/ Shuffle \/ LoopHead \/ OpenDirect \/ OpenFallback
    \/ BeginRead \/ SpawnThread \/ JoinThread \/ ParCheck \/ SeqRead
    \/ FinishIteration \/ Finish
    \/ \E t \in 1..MaxK : WorkerAlloc(t) \/ WorkerPread(t) \/ WorkerFree(t)

\* ==================== the advancing-pointer program (main.cpp) =============

\* lines 251-260: posix_memalign of the read buffer, zero the byte total
AdvAllocBuffer ==
    /\ prog = "advancing" /\ pc = "start"
    /\ \/ /\ read_buffer' = "allocated"
          /\ pc' = "loop"
          /\ UNCHANGED <<outcome, status>>
       \/ /\ Return1
          /\ UNCHANGED read_buffer
    /\ total_bytes_read' = 0
    /\ i' = 0
    /\ UNCHANGED <<cfgVars, reported, average, progress, file_permutation, file_num, fdVars,
                   file_total_read, file_remaining, buffer_ptr, parVars, histVars>>

\* lines 262-265: loop test and file selection, file_num = (i % N) + 1.  With
\* N = 0 the expression i % N is undefined behaviour, as in LoopHead.
AdvLoopHead ==
    /\ prog = "advancing" /\ pc = "loop"
    /\ \/ /\ i < ITER /\ N > 0
          /\ file_num' = (i % N) + 1
          /\ pc' = "open"
          /\ UNCHANGED <<outcome, status>>
       \/ /\ i < ITER /\ N = 0
          /\ \/ /\ pc' = "exit" /\ outcome' = "crashed" /\ status' = 136
                /\ UNCHANGED file_num
             \/ /\ file_num' \in 0..MaxN
                /\ pc' = "open"
                /\ UNCHANGED <<outcome, status>>
       \/ /\ i >= ITER
          /\ pc' = "finish"
          /\ UNCHANGED <<file_num, outcome, status>>
    /\ IF i < ITER THEN StartIteration
                   ELSE UNCHANGED <<attempts, warnings, nreads, fullReads, allocFailed,
                                    preads, readErr, zeroReads>>
    /\ UNCHANGED <<cfgVars, reported, average, read_buffer, file_permutation, i, progress,
                   fdVars, byteVars, parVars, opened, closes>>

\* lines 267-270: open with O_RDONLY | O_DIRECT
AdvOpenDirect ==
    /\ prog = "advancing" /\ pc = "open"
    /\ attempts' = attempts + 1
    /\ \/ /\ Opened
          /\ pc' = "read"
       \/ /\ fd' = -1
          /\ pc' = "fallback"
          /\ UNCHANGED <<openFds, fsize, fpos, opened>>
    /\ UNCHANGED <<cfgVars, outcome, status, reported, average, read_buffer, file_permutation,
                   i, progress, file_num, byteVars, parVars,
                   warnings, nreads, fullReads, allocFailed, preads, readErr, zeroReads, closes>>

\* lines 271-281: the buffered open tried once after O_DIRECT failed
AdvOpenFallback ==
    /\ prog = "advancing" /\ pc = "fallback"
    /\ attempts' = attempts + 1
    /\ \/ /\ Opened
          /\ warnings' = warnings + 1
          /\ pc' = "read"
          /\ UNCHANGED <<outcome, status, read_buffer>>
       \/ /\ fd' = -1
          /\ FreeBuffer
          /\ Return1
          /\ UNCHANGED <<openFds, fsize, fpos, opened, warnings>>
    /\ UNCHANGED <<cfgVars, reported, average, file_permutation, i, progress, file_num,
                   byteVars, parVars, nreads, fullReads, allocFailed, preads, readErr, zeroReads, closes>>

\* lines 283-286: the locals of the read loop
AdvBeginRead ==
    /\ prog = "advancing" /\ pc = "read"
    /\ total_read' = 0
    /\ file_remaining' = aligned_K
    /\ buffer_ptr' = 0
    /\ pc' = "seq"
    /\ UNCHANGED <<cfgVars, outcome, status, reported, average, read_buffer, file_permutation,
                   i, progress, file_num, fdVars, total_bytes_read, file_total_read,
                   num_chunks, chunk_idx, join_idx, error_occurred, threads, histVars>>

\* a test that takes no result as a failure
AdvReadFailed_Never(bytes_read) == FALSE

\* line 290: the test for a failed read
AdvReadFailed(bytes_read) == bytes_read < 0

\* lines 293-295: the error exit of a read: close, free, return 1
AdvAbortRead ==
    /\ Close
    /\ FreeBuffer
    /\ Return1

\* lines 288-303: one pass of the read loop, asking for all that remains
AdvRead ==
    /\ prog = "advancing" /\ pc = "seq"
    /\ \/ /\ file_remaining > 0
          /\ \E bytes_read \in ReadOn(fd, fsize - fpos, file_remaining) :
               /\ nreads' = nreads + 1
               /\ fullReads' = (fullReads /\ bytes_read = file_remaining)
               /\ readErr' = (readErr \/ bytes_read < 0)
               /\ zeroReads' = zeroReads + (IF bytes_read = 0 THEN 1 ELSE 0)
               /\ IF AdvReadFailed(bytes_read)
                     THEN /\ AdvAbortRead
                          /\ UNCHANGED <<fpos, total_read, file_remaining, buffer_ptr>>
                     ELSE IF bytes_read = 0
                     THEN /\ pc' = "accum"
                          /\ UNCHANGED <<outcome, status, read_buffer, openFds, closes,
                                         fpos, total_read, file_remaining, buffer_ptr>>
                     ELSE /\ total_read' = total_read + bytes_read
                          /\ buffer_ptr' = buffer_ptr + bytes_read
                          /\ file_remaining' = file_remaining - bytes_read
                          /\ fpos' = fpos + bytes_read
                          /\ UNCHANGED <<pc, outcome, status, read_buffer, openFds, closes>>
       \/ /\ file_remaining <= 0
          /\ pc' = "accum"
          /\ UNCHANGED <<outcome, status, read_buffer, openFds, closes, fpos,
                         total_read, file_remaining, buffer_ptr, nreads, fullReads, readErr, zeroReads>>
    /\ UNCHANGED <<cfgVars, reported, average, file_permutation, i, progress, file_num, fd, fsize,
                   total_bytes_read, file_total_read, num_chunks, chunk_idx, join_idx,
                   error_occurred, threads, attempts, warnings, allocFailed,
                   preads, opened>>

\* lines 305-314: add the file's bytes to the total, close, print progress
\* when it is due, next iteration
AdvFinishIteration ==
    /\ prog = "advancing" /\ pc = "accum"
    /\ total_bytes_read' = total_bytes_read + total_read
    /\ Close
    /\ progress' = IF ProgressDue(i + 1) THEN progress \cup {i + 1} ELSE progress
    /\ i' = i + 1
    /\ pc' = "loop"
    /\ UNCHANGED <<cfgVars, outcome, status, reported, average, read_buffer, file_permutation,
                   file_num, fd, fsize, fpos, file_total_read, file_remaining,
                   buffer_ptr, parVars, attempts, warnings, nreads, fullReads,
                   allocFailed, preads, readErr, zeroReads, opened>>

\* lines 316-328: free the buffer, print the statistics, return 0
AdvFinish ==
    /\ prog = "advancing" /\ pc = "finish"
    /\ FreeBuffer
    /\ reported' = TRUE
    /\ average' = AverageTime
    /\ pc' = "exit"
    /\ outcome' = "completed"
    /\ status' = 0
    /\ UNCHANGED <<cfgVars, file_permutation, i, progress, file_num, fdVars, byteVars,
                   parVars, histVars>>

AdvancingNext ==
    \/ AdvAllocBuffer \/ AdvLoopHead \/ AdvOpenDirect \/ AdvOpenFallback
    \/ AdvBeginRead \/ AdvRead \/ AdvFinishIteration \/ AdvFinish

Next == ChunkedNext \/ AdvancingNext

Spec == Init /\ [][Next]_vars

\* ================= the computation of aligned_K, in bytes =================
\* Spec above starts once the parameters are computed and counts sizes in
\* units; SpecAlign is the computation itself, with K and aligned_K in bytes.

\* the largest value of `int K` and `int aligned_K` (32-bit int)
IntMax == 2147483647

\* main.cpp lines 27 and 176: const int BLOCK_SIZE = 512
BLOCK_SIZE == 512

\* part_000 line 156: const size_t ALIGNMENT = 4096
ALIGNMENT == 4096

\* the programs that compute an aligned_K: the single-read and the advancing
\* program of main.cpp round K up to a block, the chunked program copies it
AlignPrograms == {"single", "advancing", "chunked"}
BlockAligning == {"single", "advancing"}

\* file sizes tried: the small ones and those next to the largest int
KValues == (1..MaxSmallK) \cup {IntMax - d : d \in 0..MaxNearTop}

\* a + b does not fit an int (b >= 0): signed overflow, undefined behaviour
AddOverflows(a, b) == a > IntMax - b

\* a + b as a 32-bit two's complement addition: a + b - 2^32 when it overflows
WrapAdd(a, b) ==
    IF AddOverflows(a, b) THEN (a - IntMax - 1) + (b - IntMax - 1) ELSE a + b

\* the division of C, which truncates toward zero (b > 0; \div rounds down,
\* so a negative a is rounded up by adding b - 1 first)
TruncDiv(a, b) == IF a >= 0 THEN a \div b ELSE (a + (b - 1)) \div b

\* main.cpp lines 28 and 177: ((K + BLOCK_SIZE - 1) / BLOCK_SIZE) * BLOCK_SIZE
BlockAlign(k) == TruncDiv(WrapAdd(k, BLOCK_SIZE - 1), BLOCK_SIZE) * BLOCK_SIZE

AlignInit ==
    /\ prog \in AlignPrograms
    /\ K \in KValues
    /\ aligned_K = 0
    /\ N = 10 /\ ITER = 100
    /\ CHUNK_SIZE = 4 * 1024 * 1024
    /\ SKIP_READ = FALSE /\ PARALLEL_READ = FALSE
    /\ fileSize = 0
    /\ pc = "parse"
    /\ NothingRunYet

\* main.cpp lines 26-28 and 175-177, part_000 lines 155-157: aligned_K is set.
\* When K + 511 overflows the build either wraps the sum or traps.
Align ==
    /\ pc = "parse"
    /\ \/ /\ prog \in BlockAligning /\ ~AddOverflows(K, BLOCK_SIZE - 1)
          /\ aligned_K' = BlockAlign(K)
          /\ pc' = "aligned"
          /\ UNCHANGED <<outcome, status>>
       \/ /\ prog \in BlockAligning /\ AddOverflows(K, BLOCK_SIZE - 1)
          /\ \/ /\ aligned_K' = BlockAlign(K)
                /\ pc' = "aligned"
                /\ UNCHANGED <<outcome, status>>
             \/ /\ pc' = "exit" /\ outcome' = "crashed" /\ status' = 134
                /\ UNCHANGED aligned_K
       \/ /\ prog = "chunked"
          /\ aligned_K' = K
          /\ pc' = "aligned"
          /\ UNCHANGED <<outcome, status>>
    /\ UNCHANGED <<prog, N, ITER, K, CHUNK_SIZE, SKIP_READ, PARALLEL_READ, fileSize,
                   reported, average, read_buffer, file_permutation, i, progress, file_num,
                   fdVars, byteVars, parVars, histVars>>

AlignNext == Align

SpecAlign == AlignInit /\ [][AlignNext]_vars

\* ===================== the cadence of the progress lines ===================
\* The iteration loop reduced to its counter and its progress check, so that
\* iteration counts of 10 and more, and of 1000 and more, can be run.

\* the four programs: the plain ifstream one (part_000 lines 10-110), the
\* single-read one (main.cpp 13-146), the advancing and the chunked one
AllPrograms == {"plain", "single", "advancing", "chunked"}

\* iteration counts tried
ProgressIters ==
    (0..MaxProgressIter) \cup
    (IF prog = "chunked" THEN {ProgressEvery * r : r \in 1..MaxRounds} ELSE {})

ProgressInit ==
    /\ prog \in AllPrograms
    /\ ITER \in ProgressIters
    /\ N = 10
    /\ K = 1 /\ aligned_K = 1 /\ CHUNK_SIZE = 1
    /\ SKIP_READ = FALSE /\ PARALLEL_READ = FALSE
    /\ fileSize = 1
    /\ pc = "loop"
    /\ NothingRunYet

\* one pass of the loop: for (i = 0; i < ITER; i++) { ...; progress check }
\* (part_000 lines 73, 94-97 and 293, 391-398; main.cpp 104, 127-130 and
\* 262, 310-313)
ProgressStep ==
    /\ pc = "loop" /\ i < ITER
    /\ progress' = IF ProgressDue(i + 1) THEN progress \cup {i + 1} ELSE progress
    /\ i' = i + 1
    /\ UNCHANGED <<cfgVars, pc, outcome, status, reported, average, read_buffer,
                   file_permutation, file_num, fdVars, byteVars, parVars, histVars>>

ProgressNext == ProgressStep

SpecProgress == ProgressInit /\ [][ProgressNext]_vars

\* ============================== the claims ================================

\* the permutation has been built: the buffer was allocated and the shuffle ran
PermutationBuilt ==
    prog = "chunked" /\ read_buffer # "none" /\ pc \notin {"start", "shuffle"}

\* number of opens of file f so far
OpensOf(f) == Cardinality({j \in 1..Len(opened) : opened[j] = f})

\* C1: in the chunked program, for every N >= 1 the permutation built before
\* the loop has length N and holds each index 1..N exactly once.
C1_PermutationIsBijection ==
    (PermutationBuilt /\ N >= 1) =>
        /\ Len(file_permutation) = N
        /\ Range(file_permutation) = 1..N
        /\ \A f \in 1..N : Cardinality({k \in 1..N : file_permutation[k] = f}) = 1

\* C1 witness: a shuffled (non-identity) permutation of two files is in use
C1_Witness ==
    PermutationBuilt /\ N = 2 /\ pc = "open" /\ file_permutation = <<2, 1>>

\* C2 (state part): the j-th open (1-based) is of file permutation[(j-1) mod N];
\* in any N consecutive opens every file occurs once; a completed run with
\* ITER = m*N has opened every file exactly m times.
C2_OpensFollowPermutation ==
    (PermutationBuilt /\ N >= 1) =>
        /\ \A j \in 1..Len(opened) : opened[j] = file_permutation[((j - 1) % N) + 1]
        /\ \A a \in 0..(Len(opened) - N) : \A f \in 1..N :
               Cardinality({j \in (a + 1)..(a + N) : opened[j] = f}) = 1
        /\ (outcome = "completed" /\ ITER % N = 0) =>
               \A f \in 1..N : OpensOf(f) = ITER \div N

\* C2: the permutation is never modified once built, and the opens follow it
C2_PermutationFixedAndFollowed ==
    /\ []C2_OpensFollowPermutation
    /\ [][PermutationBuilt => file_permutation' = file_permutation]_vars

\* C2 witness: two files in shuffled order, ITER = N iterations completed,
\* each file opened once, in the order of the permutation
C2_Witness ==
    /\ PermutationBuilt /\ N = 2 /\ ITER = N /\ outcome = "completed"
    /\ file_permutation = <<2, 1>> /\ opened = <<2, 1>>


\* C3: at most one descriptor is open; every opened descriptor is closed
\* exactly once before the next open or the return, on every path; none is
\* open when the run has ended.
C3_DescriptorClosedOnce ==
    /\ Cardinality(openFds) <= 1
    /\ closes + Cardinality(openFds) = Len(opened)
    /\ pc \in {"start", "shuffle", "loop", "open", "fallback", "finish", "exit"}
          => openFds = {}
    /\ outcome \in {"completed", "aborted"} => (openFds = {} /\ closes = Len(opened))

\* C3 witness: a run aborted by a parallel read error in its second iteration,
\* both descriptors closed
C3_Witness ==
    /\ outcome = "aborted" /\ PARALLEL_READ /\ error_occurred
    /\ Len(opened) = 2 /\ closes = 2 /\ openFds = {}

\* a worker of the current file has not ended
WorkersRunning == \E t \in DOMAIN threads : threads[t].st # "done"

\* C4: while a worker still runs the main thread is spawning or joining, the
\* descriptor is open and the process has not returned; past the join loop
\* every spawned worker has been joined.
C4_WorkersJoinedBeforeClose ==
    /\ WorkersRunning =>
          /\ pc \in {"spawn", "join"}
          /\ fd \in openFds
          /\ outcome = "running"
    /\ pc = "check" => join_idx = Len(threads)

\* C4 witness: error path, two workers spawned, one without a buffer, both ended
\* and the run aborted
C4_Witness ==
    /\ outcome = "aborted" /\ PARALLEL_READ /\ allocFailed
    /\ Len(threads) = 2 /\ ~WorkersRunning /\ openFds = {}

\* C5: parallel read of S = aligned_K divisible by C = CHUNK_SIZE: exactly S/C
\* workers, worker k at offset k*C, one pread of C bytes each, the ranges
\* tiling [0, S); if every pread is full the file read yields S bytes.
C5_ParallelChunks ==
    (prog = "chunked" /\ PARALLEL_READ /\ ~SKIP_READ /\ aligned_K % CHUNK_SIZE = 0) =>
        /\ pc \in {"join", "check", "accum"} =>
              /\ Len(threads) = aligned_K \div CHUNK_SIZE
              /\ \A k \in 1..Len(threads) : threads[k].offset = (k - 1) * CHUNK_SIZE
        /\ (pc \in {"check", "accum"} /\ ~allocFailed) =>
              /\ preads = {<<k * CHUNK_SIZE, CHUNK_SIZE>> :
                             k \in 0..((aligned_K \div CHUNK_SIZE) - 1)}
              /\ nreads = aligned_K \div CHUNK_SIZE
              /\ UNION {(o[1])..(o[1] + o[2] - 1) : o \in preads} = 0..(aligned_K - 1)
        /\ (pc = "check" /\ fullReads /\ ~allocFailed) =>
              (~error_occurred /\ total_read = aligned_K)
        /\ (pc = "accum" /\ fullReads /\ ~allocFailed) => file_total_read = aligned_K

\* C5 witness: two chunks of one unit read in parallel, two bytes returned
C5_Witness ==
    /\ prog = "chunked" /\ PARALLEL_READ /\ ~SKIP_READ /\ pc = "accum"
    /\ aligned_K = 2 /\ CHUNK_SIZE = 1 /\ nreads = 2 /\ file_total_read = 2

\* C6: a short pread, a failed pread or a failed worker allocation fails the
\* whole file read: the error flag is set, the read never reaches the
\* accumulation, the run aborts with a non-zero status, the total holds only
\* the bytes of the earlier iterations and no statistics are printed.
C6_AnyChunkFailureFailsRead ==
    (prog = "chunked" /\ PARALLEL_READ /\ ~SKIP_READ /\ (allocFailed \/ ~fullReads)) =>
        /\ error_occurred
        /\ pc \in {"spawn", "join", "check", "exit"}
        /\ pc = "exit" =>
              /\ outcome = "aborted" /\ status # 0 /\ ~reported
              /\ total_bytes_read = i * ((aligned_K \div CHUNK_SIZE) * CHUNK_SIZE)

\* C6 witness: one worker read its full chunk and another a short one (end of
\* a file shorter than aligned_K); the run aborted and the full chunk's bytes
\* are not in the total
C6_Witness ==
    /\ prog = "chunked" /\ PARALLEL_READ /\ ~SKIP_READ
    /\ ~fullReads /\ ~readErr /\ ~allocFailed /\ total_read > 0
    /\ pc = "exit" /\ outcome = "aborted" /\ total_bytes_read = 0


\* bytes one successful iteration adds to the total: nothing when reads are
\* skipped, the whole chunks in parallel mode, else what the file holds up to
\* aligned_K
BytesPerFile ==
    IF prog = "chunked" /\ SKIP_READ THEN 0
    ELSE IF prog = "chunked" /\ PARALLEL_READ
         THEN (aligned_K \div CHUNK_SIZE) * CHUNK_SIZE
         ELSE Min(aligned_K, fileSize)

\* the current iteration holds a descriptor and is reading or about to
InIteration == pc \in {"read", "seq", "spawn", "join", "check", "accum"}

\* C7: a failed O_DIRECT open followed by a successful buffered open is not
\* fatal: at most two open attempts and one warning per iteration, one
\* warning exactly when the second attempt opened the file; the file is then
\* read and closed as usual, only a read failure can still abort that
\* iteration, and a completed run has the byte total of a run with no fallback.
C7_FallbackNotFatal ==
    /\ attempts <= 2 /\ warnings <= 1
    /\ InIteration =>
          /\ fd \in openFds
          /\ (attempts = 1 /\ warnings = 0) \/ (attempts = 2 /\ warnings = 1)
    /\ (warnings = 1 /\ pc = "exit" /\ outcome # "completed") =>
          (outcome = "aborted" /\ (readErr \/ error_occurred) /\ openFds = {})
    /\ pc = "accum" =>
          (IF prog = "chunked" THEN file_total_read ELSE total_read) = BytesPerFile
    /\ outcome = "completed" =>
          /\ total_bytes_read = ITER * BytesPerFile
          /\ Len(opened) = ITER /\ closes = ITER

\* C7 witness: a completed run of two or more iterations whose last iteration
\* fell back to the buffered open and still read the whole file
C7_Witness ==
    /\ outcome = "completed" /\ warnings = 1 /\ attempts = 2 /\ ITER >= 2
    /\ aligned_K = 2 /\ total_bytes_read = ITER * aligned_K

\* both opens of the current iteration failed and the process has ended
BothOpensFailed == pc = "exit" /\ attempts = 2 /\ warnings = 0

\* C8: when both opens fail the run aborts in that iteration: no descriptor,
\* no read issued, the main buffer freed, a non-zero status, no statistics,
\* and no step of the program follows.
C8_OpenFailureAborts ==
    BothOpensFailed =>
        /\ outcome = "aborted" /\ status # 0 /\ ~reported
        /\ fd = -1 /\ openFds = {} /\ nreads = 0
        /\ read_buffer = "freed"
        /\ i < ITER /\ Len(opened) = i /\ closes = i
        /\ ~ENABLED Next

\* C8 witness: both opens fail in the second iteration, after one file was read
C8_Witness ==
    BothOpensFailed /\ i = 1 /\ total_bytes_read > 0 /\ read_buffer = "freed"

\* a sequential read (either program) got a negative count
SeqReadError == readErr /\ ~(prog = "chunked" /\ PARALLEL_READ)

\* C9: in sequential mode a negative read result ends the run: descriptor
\* closed, main buffer freed, non-zero status, the total holds only the bytes
\* of the earlier iterations, and no step of the program follows.
C9_SeqReadErrorFatal ==
    SeqReadError =>
        /\ pc = "exit" /\ outcome = "aborted" /\ status # 0 /\ ~reported
        /\ openFds = {} /\ closes = Len(opened)
        /\ read_buffer = "freed"
        /\ i < ITER /\ Len(opened) = i + 1
        /\ total_bytes_read = i * Min(aligned_K, fileSize)
        /\ ~ENABLED Next

\* C9 witness: second iteration of the chunked program, one unit read and
\* then a failed read; the total holds the first file only
C9_Witness ==
    /\ SeqReadError /\ prog = "chunked" /\ pc = "exit" /\ i = 1
    /\ file_total_read = 1 /\ total_bytes_read = 2

\* the sequential read loop of the chunked program has ended without an error
SeqReadDone == prog = "chunked" /\ ~SKIP_READ /\ ~PARALLEL_READ /\ pc = "accum"

CeilDiv(a, b) == (a + b - 1) \div b

\* C10 as stated: the read yields min(S, actual size) bytes and, absent early
\* end of file, takes ceil(S/C) read calls.
C10_Original ==
    SeqReadDone =>
        /\ file_total_read = Min(aligned_K, fileSize)
        /\ fileSize >= aligned_K => nreads = CeilDiv(aligned_K, CHUNK_SIZE)

\* C10 (amended): the read yields min(S, actual size) bytes; it goes on while
\* no read returned 0 and ends at the first that does, which happens exactly
\* when the file is shorter than S; absent early end of file it takes
\* ceil(S/C) read calls if every read returned all it asked for, and at least
\* that many otherwise.
C10_SeqReadAll ==
    /\ (prog = "chunked" /\ pc = "seq") => zeroReads = 0
    /\ SeqReadDone =>
          /\ file_total_read = Min(aligned_K, fileSize)
          /\ zeroReads = (IF fileSize < aligned_K THEN 1 ELSE 0)
          /\ fileSize >= aligned_K =>
                /\ nreads >= CeilDiv(aligned_K, CHUNK_SIZE)
                /\ fullReads => nreads = CeilDiv(aligned_K, CHUNK_SIZE)

\* C10 witness: two units in chunks of one, two full reads
C10_Witness ==
    /\ SeqReadDone /\ aligned_K = 2 /\ CHUNK_SIZE = 1 /\ fileSize = 2
    /\ fullReads /\ nreads = 2 /\ file_total_read = 2

\* a fatal error has happened: the main buffer could not be allocated, both
\* opens of a file failed, a sequential read returned a negative count, or a
\* parallel read ended with its error flag set
FatalError ==
    \/ pc = "exit" /\ read_buffer = "none"
    \/ attempts = 2 /\ warnings = 0
    \/ SeqReadError
    \/ prog = "chunked" /\ PARALLEL_READ /\ error_occurred
          /\ pc \notin {"spawn", "join", "check"}

C12_BuffersReleasedOnce ==
    /\ read_buffer \in {"none", "allocated", "freed"}
    /\ pc \notin {"start", "exit"} => read_buffer = "allocated"
    /\ read_buffer = "none" =>
          (pc = "start" \/ (outcome = "aborted" /\ i = 0 /\ opened = <<>> /\ nreads = 0))
    /\ outcome = "completed" => read_buffer = "freed"
    /\ (outcome = "aborted" /\ (opened # <<>> \/ attempts > 0)) => read_buffer = "freed"
    /\ read_buffer = "freed" => (pc = "exit" /\ ~WorkersRunning)
    /\ \A t \in DOMAIN threads :
          /\ threads[t].st \in {"pread", "free"} => threads[t].buf
          /\ threads[t].st \in {"alloc", "done"} => ~threads[t].buf
    /\ pc \notin {"spawn", "join"} => \A t \in DOMAIN threads : ~threads[t].buf

\* C12 witness: a parallel read of two chunks, one of them short; the run
\* aborted, both workers released their buffers and the main buffer is freed
C12_Witness ==
    /\ outcome = "aborted" /\ PARALLEL_READ /\ ~fullReads /\ ~allocFailed
    /\ Len(threads) = 2 /\ nreads = 2 /\ \A t \in DOMAIN threads : ~threads[t].buf
    /\ read_buffer = "freed"

\* the chunked program runs in skip-read mode
SkipMode == prog = "chunked" /\ SKIP_READ

\* C13: in skip-read mode no read or pread is ever issued, no worker is
\* spawned and the read loop is never entered; every iteration adds 0 bytes, so
\* the total stays 0; each iteration that opened its file closes it once, and
\* a completed run has made exactly ITER successful opens and ITER closes.
C13_SkipReadOpensAndCloses ==
    SkipMode =>
        /\ nreads = 0 /\ preads = {} /\ zeroReads = 0 /\ ~readErr
        /\ threads = <<>> /\ pc \notin {"seq", "spawn", "join", "check"}
        /\ file_total_read = 0 /\ total_bytes_read = 0
        /\ pc = "loop" => (Len(opened) = i /\ closes = i)
        /\ outcome = "completed" =>
              (Len(opened) = ITER /\ closes = ITER /\ openFds = {})

\* C13 witness: a completed skip-read run of three iterations over two files
C13_Witness ==
    /\ SkipMode /\ outcome = "completed" /\ N = 2 /\ ITER = 3
    /\ Len(opened) = 3 /\ closes = 3 /\ total_bytes_read = 0 /\ fileSize > 0

\* a sequential run over files of exactly aligned_K bytes
SeqExactFiles ==
    /\ fileSize = aligned_K
    /\ prog = "advancing" \/ (prog = "chunked" /\ ~SKIP_READ /\ ~PARALLEL_READ)

\* C14: in sequential mode with every file exactly aligned_K bytes, every
\* file read that ends without an error yields aligned_K bytes, after j
\* completed iterations the total is j * aligned_K (with j opens and j
\* closes), and a completed run reports ITER * aligned_K, for every chunk size
\* and however the reads are split.
C14_SequentialByteTotal ==
    SeqExactFiles =>
        /\ pc = "accum" =>
              (IF prog = "chunked" THEN file_total_read ELSE total_read) = aligned_K
        /\ pc \in {"loop", "finish"} =>
              (total_bytes_read = i * aligned_K /\ Len(opened) = i /\ closes = i)
        /\ outcome = "completed" =>
              /\ total_bytes_read = ITER * aligned_K
              /\ Len(opened) = ITER /\ closes = ITER

\* C14 witness: three iterations over two files of two units read in chunks of
\* one unit: six units in total
C14_Witness ==
    /\ SeqExactFiles /\ prog = "chunked" /\ outcome = "completed"
    /\ N = 2 /\ ITER = 3 /\ aligned_K = 2 /\ CHUNK_SIZE = 1
    /\ Len(opened) = 3 /\ closes = 3 /\ total_bytes_read = 6

\* C15 (as stated): with ITER = 0 no iteration runs (no open, read or close),
\* the run completes with a total of 0 bytes, and the average time is never
\* computed by a division by ITER = 0.
C15_Original ==
    ITER = 0 =>
        /\ opened = <<>> /\ closes = 0 /\ attempts = 0 /\ nreads = 0
        /\ total_bytes_read = 0
        /\ outcome \in {"running", "completed"} \/ read_buffer = "none"
        /\ average # "inf_or_nan"

\* C15 failing state: ITER = 0, nothing opened or read, the run completed and
\* the statistics hold the quotient of a division by zero
C15_Witness ==
    /\ ITER = 0 /\ outcome = "completed" /\ reported
    /\ opened = <<>> /\ closes = 0 /\ nreads = 0 /\ total_bytes_read = 0
    /\ average = "inf_or_nan"

\* the loop body has been entered at least once (i % N has been evaluated)
IterationStarted ==
    \/ outcome = "crashed"
    \/ pc \in {"open", "fallback", "read", "seq", "spawn", "join", "check", "accum"}
    \/ attempts > 0 \/ i > 0

\* C16 (as stated): with N = 0 the engine short-circuits for every ITER >= 0:
\* i % N is never evaluated and the empty permutation is never indexed, so no
\* iteration starts and the process is not killed.
C16_Original ==
    N = 0 => (~IterationStarted /\ opened = <<>> /\ file_num = 0)

\* C16 failing state: N = 0 and ITER >= 1: the first pass of the loop has
\* evaluated 0 % 0 and the process was killed
C16_Witness ==
    N = 0 /\ ITER >= 1 /\ i = 0 /\ outcome = "crashed" /\ file_permutation = <<>>

\* C17 (as stated, under SpecAlign): in the block-aligning programs, for
\* every K >= 1 that fits an int the computation ends with
\* aligned_K = ceil(K / 512) * 512, aligned_K >= K and aligned_K divisible by
\* 512, the values of K next to the largest int included.
C17_Original ==
    (prog \in BlockAligning /\ K >= 1 /\ pc # "parse") =>
        /\ pc = "aligned"
        /\ aligned_K >= K
        /\ aligned_K % BLOCK_SIZE = 0
        /\ aligned_K = (((K - 1) \div BLOCK_SIZE) + 1) * BLOCK_SIZE

\* C17 failing state: K is the largest int, K + 511 wrapped, and the
\* aligned size is negative
C17_Witness ==
    /\ prog \in BlockAligning /\ pc = "aligned"
    /\ K = IntMax /\ aligned_K < 0 /\ aligned_K < K

\* the reporting interval the claim states: the fixed count 1000 in the
\* chunked program, else ITER / 10, taken as 1 when that would be 0
StatedInterval ==
    IF prog = "chunked" THEN 1000 ELSE IF ITER < 10 THEN 1 ELSE ITER \div 10

\* C18 (under SpecProgress): for every ITER >= 1 the divisor of the progress
\* check is the stated interval and is at least 1, and after i iterations
\* progress has been printed exactly at the iterations 1..i whose 1-based
\* number is a multiple of it.
C18_ProgressCadence ==
    ITER >= 1 =>
        /\ ProgressInterval = StatedInterval
        /\ ProgressInterval >= 1
        /\ progress = {n \in 1..i : n % StatedInterval = 0}

\* C18 witness: 25 iterations of a ten-percent program, all done: the
\* interval is 2 and the twelve even iterations printed progress
C18_Witness ==
    /\ prog = "advancing" /\ ITER = 25 /\ i = ITER /\ ProgressInterval = 2
    /\ progress = {2 * n : n \in 1..12}

\* a parallel read whose chunk size does not divide the aligned file size
NonDividingChunks ==
    prog = "chunked" /\ PARALLEL_READ /\ ~SKIP_READ /\ aligned_K % CHUNK_SIZE # 0

\* C19 (as stated): in parallel mode a chunk size that does not divide
\* aligned_K (a chunk larger than the file, hence zero chunks, included) is
\* rejected before any chunk read is issued: no worker is spawned, no pread
\* is made, and the run never completes having read fewer than aligned_K
\* bytes of a file it opened.
C19_Original ==
    NonDividingChunks =>
        /\ threads = <<>> /\ nreads = 0
        /\ pc \notin {"spawn", "join", "check", "accum"}
        /\ ~(outcome = "completed" /\ total_bytes_read < Len(opened) * aligned_K)

\* C19 failing state: a chunk of two units for files of one unit: zero
\* chunks, no worker, and the run completed reporting 0 bytes for a file it
\* opened and that holds data
C19_Witness ==
    /\ NonDividingChunks /\ aligned_K = 1 /\ CHUNK_SIZE = 2 /\ fileSize = 1
    /\ outcome = "completed" /\ ITER >= 1 /\ Len(opened) = ITER
    /\ nreads = 0 /\ total_bytes_read = 0

\* C20 (as stated, under SpecAlign): in the chunked program, for every K
\* accepted from the command line, aligned_K >= K and aligned_K is a multiple
\* of the alignment unit 4096.
C20_Original ==
    (prog = "chunked" /\ pc = "aligned") =>
        (aligned_K >= K /\ aligned_K % ALIGNMENT = 0)

\* C20 failing state: K = 1024, the default of the program, is taken as
\* aligned_K unchanged
C20_Witness ==
    /\ prog = "chunked" /\ pc = "aligned" /\ K = 1024
    /\ aligned_K = K /\ aligned_K % ALIGNMENT # 0


\* a step taken by a worker thread (the thread vector keeps its length and
\* one of its records changes)
WorkerStep == Len(threads') = Len(threads) /\ threads' # threads

\* the workers that hold a buffer
LiveWorkers == {t \in DOMAIN threads : threads[t].buf}

\* C21: the workers share no mutable state but the atomic byte counter and the
\* atomic error flag. Each worker that holds a buffer holds one it allocated
\* itself, of CHUNK_SIZE bytes, which is neither the main read buffer nor the
\* buffer of another live worker; the pread of a worker wrote into the
\* worker's own buffer; and no step of a worker changes the file cursor, the
\* descriptor, the main read buffer or any other variable of the main loop.
C21_BuffersDistinct ==
    (prog = "chunked") =>
        /\ \A t \in LiveWorkers :
              /\ threads[t].addr = WorkerBlock(t)
              /\ threads[t].addr # 0
              /\ threads[t].addr # ReadBufferBlock
              /\ \A u \in LiveWorkers : u # t => threads[u].addr # threads[t].addr
        /\ \A t \in DOMAIN threads :
              threads[t].st = "free" =>
                  /\ threads[t].dest = threads[t].addr
                  /\ threads[t].dest # ReadBufferBlock
                  /\ \A u \in LiveWorkers : u # t => threads[u].addr # threads[t].dest

C21_WorkersTouchOnlyAtomics ==
    [][WorkerStep =>
          UNCHANGED <<cfgVars, runVars, fdVars, total_bytes_read, file_total_read,
                      file_remaining, buffer_ptr, num_chunks, chunk_idx, join_idx>>]_vars

C21_WorkersShareNothing == []C21_BuffersDistinct /\ C21_WorkersTouchOnlyAtomics

\* C21 witness: two workers hold a buffer at the same time, one of them has
\* already read into it, while the main buffer is allocated and the shared
\* descriptor is open with its cursor at 0
C21_Witness ==
    /\ prog = "chunked" /\ PARALLEL_READ /\ pc \in {"spawn", "join"}
    /\ Cardinality(LiveWorkers) = 2
    /\ \E t \in LiveWorkers : threads[t].st = "free" /\ threads[t].res = "full"
    /\ \E t \in LiveWorkers : threads[t].st = "pread"
    /\ read_buffer = "allocated" /\ fd \in openFds /\ fpos = 0

\* the workers of the current file whose pread returned a whole chunk
FullWorkers == {t \in DOMAIN threads : threads[t].res = "full"}

\* the workers of the current file that failed: no buffer, a pread error or a
\* short pread
FailedWorkers == {t \in DOMAIN threads : threads[t].res \in {"noalloc", "error", "short"}}

\* C22: during a parallel read and after its join, whatever the interleaving
\* of the workers, the per-file counter is CHUNK_SIZE times the number of
\* workers whose pread returned a whole chunk (no update is lost) and the
\* error flag is set iff at least one worker failed; so both start at 0 and
\* false for each file and depend only on the results of the chunk reads.
C22_CounterAndFlag ==
    (prog = "chunked" /\ pc \in {"spawn", "join", "check"}) =>
        /\ total_read = CHUNK_SIZE * Cardinality(FullWorkers)
        /\ error_occurred = (FailedWorkers # {})
        /\ (\A t \in DOMAIN threads : threads[t].res = "none") =>
              (total_read = 0 /\ ~error_occurred)

\* C22, second part: once set, the error flag is never reset
C22_FlagNeverReset == [][error_occurred => error_occurred']_vars

C22_NoLostUpdate == []C22_CounterAndFlag /\ C22_FlagNeverReset

\* C22 witness: the second file of a run is being read in parallel; two
\* workers are joined, both read a whole chunk, and the counter counted both
\* (the first file left the counter of its own read at a nonzero value)
C22_Witness ==
    /\ prog = "chunked" /\ pc = "check" /\ i = 1
    /\ Cardinality(FullWorkers) = 2 /\ FailedWorkers = {}
    /\ total_read = 2 * CHUNK_SIZE /\ ~error_occurred
    /\ total_bytes_read > 0

\* C22 witness of the failing side: after the join one worker has read a
\* whole chunk, another failed, and the flag is set
C22_WitnessFailed ==
    /\ prog = "chunked" /\ pc = "check"
    /\ Cardinality(FullWorkers) = 1 /\ Cardinality(FailedWorkers) = 1
    /\ total_read = CHUNK_SIZE /\ error_occurred

\* ============ the single-read O_DIRECT program (main.cpp 13-146) ===========
\* One read of aligned_K bytes per iteration, no fallback open, no read loop.
\* The history variables of an iteration are those of the other programs.

\* the parameters after argument parsing; the files were written without a
\* check of the write (lines 73-74), so a file may hold fewer than aligned_K
\* bytes
SingleInit ==
    /\ prog = "single"
    /\ N \in 0..MaxN
    /\ ITER \in 0..MaxIter
    /\ aligned_K \in 1..MaxK
    /\ K = aligned_K
    /\ CHUNK_SIZE = aligned_K
    /\ SKIP_READ = FALSE
    /\ PARALLEL_READ = FALSE
    /\ fileSize \in FileSizes
    /\ pc = "start"
    /\ NothingRunYet

\* lines 93-102: posix_memalign of the read buffer, total_bytes_read = 0
SglAllocBuffer ==
    /\ prog = "single" /\ pc = "start"
    /\ \/ /\ read_buffer' = "allocated"
          /\ pc' = "loop"
          /\ UNCHANGED <<outcome, status>>
       \/ /\ Return1
          /\ UNCHANGED read_buffer
    /\ total_bytes_read' = 0
    /\ i' = 0
    /\ UNCHANGED <<cfgVars, reported, average, progress, file_permutation, file_num, fdVars,
                   file_total_read, file_remaining, buffer_ptr, parVars, histVars>>

\* lines 104-107: loop test and file selection, file_num = (i % N) + 1.  With
\* N = 0 the expression i % N is undefined behaviour, as in LoopHead.
SglLoopHead ==
    /\ prog = "single" /\ pc = "loop"
    /\ \/ /\ i < ITER /\ N > 0
          /\ file_num' = (i % N) + 1
          /\ pc' = "open"
          /\ UNCHANGED <<outcome, status>>
       \/ /\ i < ITER /\ N = 0
          /\ \/ /\ pc' = "exit" /\ outcome' = "crashed" /\ status' = 136
                /\ UNCHANGED file_num
             \/ /\ file_num' \in 0..MaxN
                /\ pc' = "open"
                /\ UNCHANGED <<outcome, status>>
       \/ /\ i >= ITER
          /\ pc' = "finish"
          /\ UNCHANGED <<file_num, outcome, status>>
    /\ IF i < ITER THEN StartIteration
                   ELSE UNCHANGED <<attempts, warnings, nreads, fullReads, allocFailed,
                                    preads, readErr, zeroReads>>
    /\ UNCHANGED <<cfgVars, reported, average, read_buffer, file_permutation, i, progress,
                   fdVars, byteVars, parVars, opened, closes>>

\* lines 110-116: open with O_RDONLY | O_DIRECT; a failure frees the buffer
\* and returns 1 (this program has no buffered fallback)
SglOpen ==
    /\ prog = "single" /\ pc = "open"
    /\ attempts' = attempts + 1
    /\ \/ /\ Opened
          /\ pc' = "read"
          /\ UNCHANGED <<outcome, status, read_buffer>>
       \/ /\ fd' = -1
          /\ FreeBuffer
          /\ Return1
          /\ UNCHANGED <<openFds, fsize, fpos, opened>>
    /\ UNCHANGED <<cfgVars, reported, average, file_permutation, i, progress, file_num,
                   byteVars, parVars, warnings, nreads, fullReads, allocFailed, preads,
                   readErr, zeroReads, closes>>

\* line 120: the only test applied to the result of the read
SglCounted(bytes_read) == bytes_read > 0

\* lines 119-122: the one read of the iteration, aligned_K bytes into the
\* buffer; its result is added to the total when positive and otherwise
\* dropped, and the loop goes on in either case
SglRead ==
    /\ prog = "single" /\ pc = "read"
    /\ \E bytes_read \in ReadOn(fd, fsize - fpos, aligned_K) :
          /\ nreads' = nreads + 1
          /\ fullReads' = (fullReads /\ bytes_read = aligned_K)
          /\ readErr' = (readErr \/ bytes_read < 0)
          /\ zeroReads' = zeroReads + (IF bytes_read = 0 THEN 1 ELSE 0)
          /\ IF SglCounted(bytes_read)
                THEN /\ total_bytes_read' = total_bytes_read + bytes_read
                     /\ fpos' = fpos + bytes_read
                ELSE UNCHANGED <<total_bytes_read, fpos>>
    /\ pc' = "close"
    /\ UNCHANGED <<cfgVars, outcome, status, reported, average, read_buffer, file_permutation,
                   i, progress, file_num, fd, openFds, fsize, file_total_read, file_remaining,
                   buffer_ptr, parVars, attempts, warnings, allocFailed, preads, opened,
                   closes>>

\* lines 125-130: close, print progress when it is due, next iteration
SglFinishIteration ==
    /\ prog = "single" /\ pc = "close"
    /\ Close
    /\ progress' = IF ProgressDue(i + 1) THEN progress \cup {i + 1} ELSE progress
    /\ i' = i + 1
    /\ pc' = "loop"
    /\ UNCHANGED <<cfgVars, outcome, status, reported, average, read_buffer, file_permutation,
                   file_num, fd, fsize, fpos, byteVars, parVars, attempts, warnings, nreads,
                   fullReads, allocFailed, preads, readErr, zeroReads, opened>>

\* lines 133-145: free the buffer, print the statistics, return 0
SglFinish ==
    /\ prog = "single" /\ pc = "finish"
    /\ FreeBuffer
    /\ reported' = TRUE
    /\ average' = AverageTime
    /\ pc' = "exit"
    /\ outcome' = "completed"
    /\ status' = 0
    /\ UNCHANGED <<cfgVars, file_permutation, i, progress, file_num, fdVars, byteVars,
                   parVars, histVars>>

SingleNext ==
    \/ SglAllocBuffer \/ SglLoopHead \/ SglOpen \/ SglRead \/ SglFinishIteration
    \/ SglFinish

SpecSingle == SingleInit /\ [][SingleNext]_vars

\* C23: in the single-read program a run that ends Completed with status 0
\* has had every iteration fully succeed: no iteration goes on past a read
\* that failed or returned fewer than aligned_K bytes, so a completed run
\* has read ITER * aligned_K bytes.
C23_Original ==
    (prog = "single") =>
        /\ (pc = "close" /\ outcome = "running") => (fullReads /\ ~readErr)
        /\ (outcome = "completed" /\ status = 0) =>
              total_bytes_read = ITER * aligned_K

\* C23 failing state: one iteration, its read returned -1, and the run ended
\* Completed with status 0 and a total of 0 bytes
C23_Witness ==
    /\ prog = "single" /\ ITER = 1 /\ N = 1
    /\ outcome = "completed" /\ status = 0 /\ reported
    /\ nreads = 1 /\ readErr /\ total_bytes_read = 0

\* C23, the part of the claim the code keeps: an open failure aborts the run,
\* and a completed run has opened and closed one file per iteration
C23_OpenFailureAborts ==
    (prog = "single") =>
        /\ (fd = -1 /\ attempts > 0) => (outcome = "aborted" /\ status = 1)
        /\ (outcome = "completed") => (Len(opened) = ITER /\ closes = ITER /\ openFds = {})

\* ================= the sequential read loop of one file ====================
\* The loop of part_000 lines 364-382 and of main.cpp lines 288-303, started
\* in the state in which the first iteration of a run enters it, for all
\* sizes from 0 on: aligned_K, CHUNK_SIZE and the size of the file on disk.

\* the state at the loop's entry: first iteration of a run of one file, the
\* buffer allocated, the file opened with O_DIRECT at the first attempt, the
\* locals of the loop set (part_000 line 364; main.cpp lines 284-286)
AtReadLoopEntry ==
    /\ pc = "seq"
    /\ outcome = "running" /\ status = -1 /\ reported = FALSE /\ average = "none"
    /\ progress = {}
    /\ read_buffer = "allocated"
    /\ file_permutation = (IF prog = "chunked" THEN <<1>> ELSE <<>>)
    /\ i = 0 /\ file_num = 1
    /\ fd = 3 /\ openFds = {3} /\ fsize = fileSize /\ fpos = 0
    /\ total_bytes_read = 0 /\ file_total_read = 0
    /\ file_remaining = aligned_K
    /\ buffer_ptr = 0
    /\ num_chunks = 0 /\ chunk_idx = 0 /\ join_idx = 0
    /\ error_occurred = FALSE /\ total_read = 0 /\ threads = <<>>
    /\ attempts = 1 /\ warnings = 0 /\ nreads = 0 /\ fullReads = TRUE
    /\ allocFailed = FALSE /\ preads = {} /\ readErr = FALSE /\ zeroReads = 0
    /\ opened = <<1>> /\ closes = 0

ReadLoopInit ==
    /\ prog \in Programs
    /\ N = 1 /\ ITER = 1
    /\ aligned_K \in 0..MaxLoopK
    /\ K = aligned_K
    /\ CHUNK_SIZE \in (IF prog = "chunked" THEN 0..MaxLoopK ELSE {aligned_K})
    /\ SKIP_READ = FALSE /\ PARALLEL_READ = FALSE
    /\ fileSize \in 0..MaxLoopK
    /\ AtReadLoopEntry

ReadLoopNext == SeqRead \/ AdvRead

\* every read call returns, so a pass of the loop that can be taken is taken
SpecReadLoop == ReadLoopInit /\ [][ReadLoopNext]_vars /\ WF_vars(ReadLoopNext)

\* the size the next read asks for (part_000 line 366; main.cpp line 289)
Requested == IF prog = "chunked" THEN ToRead ELSE file_remaining

\* C24: the sequential read loop of one file terminates when every read
\* returns.  A pass either leaves the loop (error, zero-byte read, nothing
\* remaining) or lowers the remaining count by at least 1 and at most the
\* requested size; the count never goes below 0; and the loop is left after
\* finitely many reads, for every chunk size from 0 on, also above the file
\* size.
C24_RemainingNeverNegative == file_remaining >= 0

C24_PassExitsOrDecreases ==
    [][pc = "seq" =>
          \/ pc' # "seq"
          \/ /\ file_remaining' < file_remaining
             /\ file_remaining - file_remaining' \in 1..Requested
             /\ file_remaining' >= 0
             /\ nreads' = nreads + 1]_vars

C24_LoopLeft == <>(pc # "seq")

C24_ReadLoopTerminates ==
    /\ []C24_RemainingNeverNegative
    /\ C24_PassExitsOrDecreases
    /\ C24_LoopLeft

\* C24 witness: the chunked loop with a chunk larger than the file has been
\* left after two reads of one byte each, nothing remaining
C24_Witness ==
    /\ prog = "chunked" /\ pc = "accum" /\ CHUNK_SIZE > aligned_K
    /\ aligned_K = 2 /\ nreads = 2 /\ file_remaining = 0
    /\ file_total_read = aligned_K

\* C24 witness for a chunk size of 0: the read of 0 bytes returned 0 and the
\* loop was left with all bytes remaining
C24_WitnessZeroChunk ==
    /\ prog = "chunked" /\ CHUNK_SIZE = 0 /\ aligned_K > 0
    /\ pc = "accum" /\ nreads = 1 /\ zeroReads = 1 /\ file_remaining = aligned_K

\* the size of the main read buffer: CHUNK_SIZE bytes in the chunked program
\* (part_000 line 271), aligned_K bytes in the advancing one (main.cpp line 253)
ReadBufferCapacity == IF prog = "chunked" THEN CHUNK_SIZE ELSE aligned_K

\* the offset in the main buffer the next sequential read writes to: the
\* start of the buffer (part_000 line 368), buffer_ptr - read_buffer (main.cpp
\* line 289)
WritePosition == IF prog = "chunked" THEN 0 ELSE buffer_ptr

\* C25: no read asks for more bytes than fit in its destination buffer from
\* the position written to.  Before every sequential read the position plus
\* the requested size is within the main buffer; in the chunked program the
\* request is at most CHUNK_SIZE, in the advancing program position plus
\* remaining equals aligned_K.  Every worker reads exactly CHUNK_SIZE bytes
\* into a buffer of CHUNK_SIZE bytes.
C25_ReadsFitBuffer ==
    /\ (pc = "seq" /\ file_remaining > 0) =>
          /\ read_buffer = "allocated"
          /\ WritePosition >= 0
          /\ WritePosition + Requested <= ReadBufferCapacity
          /\ prog = "chunked" => Requested <= CHUNK_SIZE
          /\ prog = "advancing" => buffer_ptr + file_remaining = aligned_K
    /\ \A t \in DOMAIN threads :
          threads[t].st \in {"pread", "free"} =>
              (threads[t].buf /\ threads[t].cap = CHUNK_SIZE)
    /\ \A p \in preads : p[2] = CHUNK_SIZE

\* C25 witness: the chunked loop about to read the last, partial piece of a
\* file, smaller than the chunk
C25_Witness ==
    /\ prog = "chunked" /\ pc = "seq" /\ nreads = 1
    /\ file_remaining > 0 /\ file_remaining < CHUNK_SIZE /\ Requested = file_remaining

\* C25 witness, advancing program: a read into the middle of the buffer
C25_WitnessAdvancing ==
    /\ prog = "advancing" /\ pc = "seq" /\ buffer_ptr = 1 /\ file_remaining = 1
    /\ aligned_K = 2

\* C25 witness, worker: a worker about to read into its CHUNK_SIZE buffer
\* while another one has read
C25_WitnessWorker ==
    /\ prog = "chunked" /\ Cardinality(preads) = 1
    /\ \E t \in DOMAIN threads : threads[t].st = "pread" /\ threads[t].cap = CHUNK_SIZE
====
